---- MODULE Spec2Model ----
(***************************************************************************)
(* A model of the loan-eligibility engine of the Django application        *)
(* `loans`: the amortization calculator, the credit scorer, the            *)
(* eligibility evaluator (src/loans/utils.py), the request handlers        *)
(* (src/loans/views.py), registration (src/loans/serializers.py) and the   *)
(* spreadsheet loader (src/loans/management/commands/load_data.py).        *)
(*                                                                         *)
(* Numbers.  The code computes in binary floating point.  The model        *)
(* computes the same expressions in exact rational arithmetic: a value is  *)
(* a record [n, d] in lowest terms with d > 0.  Amounts, incomes and       *)
(* limits are whole currency units; a stored or returned installment is a  *)
(* whole number of hundredths (the code rounds it to 2 decimals).  The     *)
(* model therefore abstracts from representation error of the floats; it   *)
(* keeps every comparison, branch and rounding step of the code.           *)
(*                                                                         *)
(* Dates are day numbers; a calendar year is 365 days.  Rows with a null   *)
(* start or end date are not modelled (every date filter of the code       *)
(* leaves such a row out).                                                 *)
(***************************************************************************)
EXTENDS Integers, Sequences, FiniteSets, TLC

VARIABLES
    today,       \* datetime.now().date(), as a day number
    customers,   \* table loans_customer: customers[i] has customer_id i
    loans,       \* table loans_loan in creation order: loans[i] has loan_id i
    request,     \* the request handled last
    evaluation,  \* what check_loan_eligibility returned in that handler
    response,    \* the response of that handler
    inflight,    \* per worker: an approved create-loan between its reads and its write
    earlier      \* what a client keeps of an earlier check-eligibility call

vars == <<today, customers, loans, request, evaluation, response, inflight, earlier>>

-----------------------------------------------------------------------------
(* Bounds of the model *)

MaxCustomers == 2   \* rows of loans_customer
MaxLoaded == 2      \* rows of loans_loan before the first request
MaxLoans == 3       \* rows of loans_loan
MaxDay == 431       \* the last day the clock reaches
MaxIncomeSteps == 160 \* monthly incomes registered: 0, 625, ..., 625 x MaxIncomeSteps
MaxPrincipal == 12    \* principals handed to the calculator on its own: 0..MaxPrincipal
MaxScored == 3        \* loans on record when the scorer runs on its own
MaxRepeatLoaded == 1 \* rows of loans_loan before the first request, when a client repeats calls
NumWorkers == 2     \* requests handled at the same time

-----------------------------------------------------------------------------
(* Exact rational arithmetic standing for the code's float arithmetic *)

RECURSIVE GCD(_, _)
GCD(a, b) == IF b = 0 THEN a ELSE GCD(b, a % b)

Abs(x) == IF x < 0 THEN -x ELSE x

Frac(n, d) ==
    LET g == GCD(Abs(n), d) IN [n |-> n \div g, d |-> d \div g]

FInt(k) == [n |-> k, d |-> 1]

FAdd(x, y) == Frac(x.n * y.d + y.n * x.d, x.d * y.d)

FSub(x, y) == Frac(x.n * y.d - y.n * x.d, x.d * y.d)

\* Cross-cancelling first keeps the products small.
FMul(x, y) ==
    LET g1 == GCD(Abs(x.n), y.d)
        g2 == GCD(Abs(y.n), x.d)
    IN  [n |-> (x.n \div g1) * (y.n \div g2), d |-> (x.d \div g2) * (y.d \div g1)]

\* x / y for y > 0
FDiv(x, y) == FMul(x, [n |-> y.d, d |-> y.n])

RECURSIVE FPow(_, _)
FPow(x, k) == IF k = 0 THEN FInt(1) ELSE FMul(x, FPow(x, k - 1))

FLess(x, y) == x.n * y.d < y.n * x.d

\* faulty variant of PyMin: the comparison the other way round (max for min)
PyMin_swapped(a, b) == IF FLess(a, b) THEN b ELSE a

\* Python's min(a, b): b only when b < a
PyMin(a, b) == IF FLess(b, a) THEN b ELSE a

\* Python's round(x, 2) for x >= 0, in hundredths; an exact tie goes to the even
\* hundredth.
Round2(x) ==
    LET q == x.n \div x.d
        t == 100 * (x.n % x.d)
        c == t \div x.d
        rem == t % x.d
        up == (2 * rem > x.d) \/ (2 * rem = x.d /\ c % 2 = 1)
    IN  100 * q + c + (IF up THEN 1 ELSE 0)

\* Python's round(x) for x >= 0: to the nearest integer, an exact tie to the even one
RoundInt(x) ==
    LET q == x.n \div x.d
        rem == x.n % x.d
        up == (2 * rem > x.d) \/ (2 * rem = x.d /\ q % 2 = 1)
    IN  q + (IF up THEN 1 ELSE 0)

RECURSIVE SumSeq(_)
SumSeq(s) == IF s = <<>> THEN 0 ELSE Head(s) + SumSeq(Tail(s))

-----------------------------------------------------------------------------
(* utils.py: the amortization calculator *)

\* faulty variant of calculate_monthly_installment: the guard of the division reads
\* tenure_months > 1, so a single period yields 0
calculate_monthly_installment_from_two(principal, annual_interest_rate, tenure_months) ==
    IF tenure_months = 0 \/ annual_interest_rate = 0
    THEN IF tenure_months > 1 THEN Frac(principal, tenure_months) ELSE FInt(0)
    ELSE LET monthly_rate == FDiv(Frac(annual_interest_rate, 12), FInt(100))
             growth == FPow(FAdd(FInt(1), monthly_rate), tenure_months)
             numerator == FMul(FInt(principal), FMul(monthly_rate, growth))
             denominator == FSub(growth, FInt(1))
         IN  IF denominator.n = 0
             THEN Frac(principal, tenure_months)
             ELSE FDiv(numerator, denominator)

calculate_monthly_installment(principal, annual_interest_rate, tenure_months) ==
    IF tenure_months = 0 \/ annual_interest_rate = 0
    THEN IF tenure_months > 0 THEN Frac(principal, tenure_months) ELSE FInt(0)
    ELSE LET monthly_rate == FDiv(Frac(annual_interest_rate, 12), FInt(100))
             growth == FPow(FAdd(FInt(1), monthly_rate), tenure_months)
             numerator == FMul(FInt(principal), FMul(monthly_rate, growth))
             denominator == FSub(growth, FInt(1))
         IN  IF denominator.n = 0
             THEN Frac(principal, tenure_months)
             ELSE FDiv(numerator, denominator)

-----------------------------------------------------------------------------
(* models.py and the queries of utils.py *)

\* Loan.objects.filter(customer=c), in creation order (oldest first)
LoansOf(ls, cid) == SelectSeq(ls, LAMBDA l : l.customer = cid)

\* .filter(customer=c, status="approved", end_date__lt=today)
PastLoans(ls, cid, day) ==
    SelectSeq(ls, LAMBDA l : l.customer = cid /\ l.status = "approved" /\ l.end_date < day)

\* .filter(customer=c, status="approved", end_date__gte=today)
CurrentLoans(ls, cid, day) ==
    SelectSeq(ls, LAMBDA l : l.customer = cid /\ l.status = "approved" /\ l.end_date >= day)

\* sum(loan.loan_amount for loan in current_loans)
TotalCurrentDebt(ls, cid, day) ==
    LET cur == CurrentLoans(ls, cid, day)
    IN  SumSeq([i \in 1..Len(cur) |-> cur[i].loan_amount])

\* Customer.total_emis_for_month, in hundredths: the filter has no status condition
total_emis_for_month(ls, cid, day) ==
    LET due == SelectSeq(ls, LAMBDA l : l.customer = cid /\ l.end_date >= day)
    IN  SumSeq([i \in 1..Len(due) |-> due[i].monthly_installment])

\* Loan.repayments_left
repayments_left(l) == IF l.tenure - l.emis_paid > 0 THEN l.tenure - l.emis_paid ELSE 0

\* datetime(datetime.now().year, 1, 1).date()
current_year_start(day) == (day \div 365) * 365

-----------------------------------------------------------------------------
(* utils.py: the credit scorer *)

\* faulty variant of on_time_component: a customer with no past loan counts as
\* having paid every past loan on time
on_time_component_vacuous(past_loans) ==
    IF Len(past_loans) > 0
    THEN LET first_loan == past_loans[Len(past_loans)]
             paid == SelectSeq(past_loans, LAMBDA l : l.emis_paid = first_loan.tenure)
         IN  IF first_loan.tenure > 0
             THEN FMul(Frac(Len(paid), Len(past_loans)), FInt(25))
             ELSE FInt(0)
    ELSE FInt(25)

\* faulty variant of on_time_component: each past loan is counted when paid in
\* full under its own tenure
on_time_component_own_tenure(past_loans) ==
    IF Len(past_loans) > 0
    THEN LET first_loan == past_loans[Len(past_loans)]
             paid == SelectSeq(past_loans, LAMBDA l : l.emis_paid = l.tenure)
         IN  IF first_loan.tenure > 0
             THEN FMul(Frac(Len(paid), Len(past_loans)), FInt(25))
             ELSE FInt(0)
    ELSE FInt(0)

\* 1. Past loans paid on time (25 points); the reference is past_loans.first(),
\* the most recently created past loan (Loan.Meta.ordering = ["-created_at"])
on_time_component(past_loans) ==
    IF Len(past_loans) > 0
    THEN LET first_loan == past_loans[Len(past_loans)]
             paid == SelectSeq(past_loans, LAMBDA l : l.emis_paid = first_loan.tenure)
         IN  IF first_loan.tenure > 0
             THEN FMul(Frac(Len(paid), Len(past_loans)), FInt(25))
             ELSE FInt(0)
    ELSE FInt(0)

\* 2. Number of loans taken in past (20 points)
loan_count_component(past_loans) ==
    PyMin(FInt(20), FMul(Frac(Len(past_loans), 5), FInt(20)))

\* 3. Loan activity in current year (20 points)
current_year_component(past_loans, day) ==
    LET current_year_loans ==
            SelectSeq(past_loans, LAMBDA l : l.start_date >= current_year_start(day))
    IN  PyMin(FInt(20), FMul(Frac(Len(current_year_loans), 3), FInt(20)))

\* 4. Loan approved volume (20 points)
volume_component(past_loans, approved_limit) ==
    IF Len(past_loans) > 0 /\ approved_limit > 0
    THEN LET total == SumSeq([i \in 1..Len(past_loans) |-> past_loans[i].loan_amount])
             avg_loan_amount == Frac(total, Len(past_loans))
         IN  PyMin(FInt(20), FMul(FDiv(avg_loan_amount, FInt(approved_limit)), FInt(20)))
    ELSE FInt(0)

\* score = 0.0 and the four additions
component_sum(past_loans, approved_limit, day) ==
    FAdd(FAdd(on_time_component(past_loans), loan_count_component(past_loans)),
         FAdd(current_year_component(past_loans, day),
              volume_component(past_loans, approved_limit)))

\* faulty variant of calculate_credit_score: the short-circuit fires at the limit
\* too (>= for >)
calculate_credit_score_at_limit(customer, ls, day) ==
    LET past_loans == PastLoans(ls, customer.customer_id, day)
        total_current_debt == TotalCurrentDebt(ls, customer.customer_id, day)
    IN  IF total_current_debt >= customer.approved_limit
        THEN FInt(0)
        ELSE PyMin(FInt(100), component_sum(past_loans, customer.approved_limit, day))

calculate_credit_score(customer, ls, day) ==
    LET past_loans == PastLoans(ls, customer.customer_id, day)
        total_current_debt == TotalCurrentDebt(ls, customer.customer_id, day)
    IN  IF total_current_debt > customer.approved_limit
        THEN FInt(0)
        ELSE PyMin(FInt(100), component_sum(past_loans, customer.approved_limit, day))

-----------------------------------------------------------------------------
(* utils.py: the eligibility evaluator *)

\* faulty variant of policy_table: each boundary score in the upper band (>= for >)
policy_table_upper_inclusive(credit_score, interest_rate) ==
    IF ~FLess(credit_score, FInt(50))
    THEN [is_approved |-> TRUE, corrected_rate |-> interest_rate]
    ELSE IF ~FLess(credit_score, FInt(30))
    THEN IF interest_rate > 12
         THEN [is_approved |-> TRUE, corrected_rate |-> interest_rate]
         ELSE [is_approved |-> FALSE, corrected_rate |-> 12]
    ELSE IF ~FLess(credit_score, FInt(10))
    THEN IF interest_rate > 16
         THEN [is_approved |-> TRUE, corrected_rate |-> interest_rate]
         ELSE [is_approved |-> FALSE, corrected_rate |-> 16]
    ELSE [is_approved |-> FALSE, corrected_rate |-> 16]

\* faulty variant of policy_table: no row for scores of 10 and less, which fall
\* under the 16% floor of the band above
policy_table_without_last_row(credit_score, interest_rate) ==
    IF FLess(FInt(50), credit_score)
    THEN [is_approved |-> TRUE, corrected_rate |-> interest_rate]
    ELSE IF FLess(FInt(30), credit_score)
    THEN IF interest_rate > 12
         THEN [is_approved |-> TRUE, corrected_rate |-> interest_rate]
         ELSE [is_approved |-> FALSE, corrected_rate |-> 12]
    ELSE IF interest_rate > 16
         THEN [is_approved |-> TRUE, corrected_rate |-> interest_rate]
         ELSE [is_approved |-> FALSE, corrected_rate |-> 16]

\* the policy table: (is_approved, corrected_rate) from the score and the requested rate
policy_table(credit_score, interest_rate) ==
    IF FLess(FInt(50), credit_score)
    THEN [is_approved |-> TRUE, corrected_rate |-> interest_rate]
    ELSE IF FLess(FInt(30), credit_score)
    THEN IF interest_rate > 12
         THEN [is_approved |-> TRUE, corrected_rate |-> interest_rate]
         ELSE [is_approved |-> FALSE, corrected_rate |-> 12]
    ELSE IF FLess(FInt(10), credit_score)
    THEN IF interest_rate > 16
         THEN [is_approved |-> TRUE, corrected_rate |-> interest_rate]
         ELSE [is_approved |-> FALSE, corrected_rate |-> 16]
    ELSE [is_approved |-> FALSE, corrected_rate |-> 16]

\* faulty variant of affordability_exceeded: rejects at exactly 50% too (>= for >)
affordability_exceeded_at_half(customer, ls, day) ==
    ~FLess(Frac(total_emis_for_month(ls, customer.customer_id, day), 100),
           FMul(FInt(customer.monthly_income), Frac(1, 2)))

\* current_emis_sum > customer.monthly_income * 0.5 (the sum is in hundredths)
affordability_exceeded(customer, ls, day) ==
    FLess(FMul(FInt(customer.monthly_income), Frac(1, 2)),
          Frac(total_emis_for_month(ls, customer.customer_id, day), 100))

\* faulty variant of exposure_exceeded: the requested amount is left out of the sum
exposure_exceeded_ignoring_request(customer, loan_amount, ls, day) ==
    TotalCurrentDebt(ls, customer.customer_id, day) > customer.approved_limit

\* faulty variant of exposure_exceeded: rejects at the limit too (>= for >)
exposure_exceeded_at_limit(customer, loan_amount, ls, day) ==
    TotalCurrentDebt(ls, customer.customer_id, day) + loan_amount >= customer.approved_limit

\* total_debt > customer.approved_limit
exposure_exceeded(customer, loan_amount, ls, day) ==
    TotalCurrentDebt(ls, customer.customer_id, day) + loan_amount > customer.approved_limit

check_loan_eligibility(customer, loan_amount, interest_rate, tenure, ls, day) ==
    LET credit_score == calculate_credit_score(customer, ls, day)
        decision == policy_table(credit_score, interest_rate)
    IN  IF affordability_exceeded(customer, ls, day)
        THEN [is_approved |-> FALSE, corrected_rate |-> interest_rate,
              monthly_emi |-> FInt(0), credit_score |-> credit_score]
        ELSE IF exposure_exceeded(customer, loan_amount, ls, day)
        THEN [is_approved |-> FALSE, corrected_rate |-> interest_rate,
              monthly_emi |-> FInt(0), credit_score |-> credit_score]
        ELSE [is_approved |-> decision.is_approved,
              corrected_rate |-> decision.corrected_rate,
              monthly_emi |->
                  IF decision.is_approved
                  THEN calculate_monthly_installment(
                           loan_amount, decision.corrected_rate, tenure)
                  ELSE FInt(0),
              credit_score |-> credit_score]

-----------------------------------------------------------------------------
(* The inputs the model draws from *)

Workers == 1..NumWorkers

\* the row of customer_data.xlsx: monthly salary 10, approved limit 20
LoadedCustomer ==
    [customer_id |-> 1, age |-> 30, phone_number |-> "p1", monthly_income |-> 10,
     approved_limit |-> 20, current_debt |-> 0]

\* (start_date, end_date) of a loaded loan; the model's clock starts at day 400,
\* in the year that starts at day 365
LastYear == <<100, 160>>
ThisYear == <<370, 399>>
Running == <<380, 400>>

LoanRow(amount, tenure, installment, paid, status, dates) ==
    [loan_amount |-> amount, tenure |-> tenure, monthly_installment |-> installment,
     emis_paid |-> paid, status |-> status, dates |-> dates]

\* rows of loan_data.xlsx for customer 1 (loan amount, tenure, monthly repayment in
\* hundredths, EMIs paid, dates); the loader stores each as approved, and LoanAdmin
\* lets an operator set another status
LoanRows ==
    {LoanRow(6, 2, 310, 0, "approved", LastYear),
     LoanRow(1, 1, 101, 1, "approved", LastYear),
     LoanRow(17, 2, 870, 2, "approved", LastYear),
     LoanRow(100, 2, 5100, 2, "approved", ThisYear),
     LoanRow(6, 1, 500, 0, "approved", Running),
     LoanRow(21, 1, 0, 0, "approved", Running),
     LoanRow(3, 1, 1, 0, "pending", Running)}

RECURSIVE SeqsUpTo(_, _)
SeqsUpTo(S, k) ==
    IF k = 0 THEN {<<>>}
    ELSE LET shorter == SeqsUpTo(S, k - 1)
         IN  shorter \cup {Append(s, x) : s \in shorter, x \in S}

\* load_loans: Loan.objects.create for the i-th row
LoadedLoan(i, row) ==
    [loan_id |-> i, customer |-> 1, loan_amount |-> row.loan_amount,
     tenure |-> row.tenure, interest_rate |-> 12,
     monthly_installment |-> row.monthly_installment, emis_paid |-> row.emis_paid,
     status |-> row.status, start_date |-> row.dates[1], end_date |-> row.dates[2]]

\* the fields of a registration request
RegisterRequests ==
    {[op |-> "register", age |-> 30, monthly_income |-> 50000, phone_number |-> "p2"],
     [op |-> "register", age |-> 17, monthly_income |-> 50000, phone_number |-> "p2"],
     [op |-> "register", age |-> 30, monthly_income |-> 50000, phone_number |-> "p1"]}

\* the fields of a check-eligibility or create-loan request
LoanRequest(op, cid, amount, rate, tenure) ==
    [op |-> op, customer_id |-> cid, loan_amount |-> amount, interest_rate |-> rate,
     tenure |-> tenure]

LoanRequests(op) ==
    {LoanRequest(op, 1, 14, 12, 1), LoanRequest(op, 1, 14, 16, 1),
     LoanRequest(op, 1, 17, 20, 1), LoanRequest(op, 1, 14, 0, 2),
     LoanRequest(op, 1, 14, 20, 0), LoanRequest(op, 2, 17, 20, 1)}

-----------------------------------------------------------------------------
(* The state after load_data: one customer and up to MaxLoaded loans *)

NoEvaluation == [called |-> FALSE]
NoResponse == [status |-> 0]
Idle == [pc |-> "idle"]
NoCall == [called |-> FALSE]

\* loan_id None of a response
NoneId == 0

Init ==
    /\ today = 400
    /\ customers = <<LoadedCustomer>>
    /\ \E rows \in SeqsUpTo(LoanRows, MaxLoaded) :
           loans = [i \in 1..Len(rows) |-> LoadedLoan(i, rows[i])]
    /\ request = [op |-> "none"]
    /\ evaluation = NoEvaluation
    /\ response = NoResponse
    /\ inflight = [w \in Workers |-> Idle]
    /\ earlier = NoCall

-----------------------------------------------------------------------------
(* serializers.py and views.py: registration *)

PhoneTaken(phone) == \E i \in 1..Len(customers) : customers[i].phone_number = phone

\* faulty variant of approved_limit_for: int() for round(), which cuts the quotient
\* off
approved_limit_for_truncated(monthly_income) ==
    ((monthly_income * 36) \div 100000) * 100000

\* RegisterCustomerSerializer.create: the approved limit
approved_limit_for(monthly_income) ==
    RoundInt(Frac(monthly_income * 36, 100000)) * 100000

\* RegisterCustomerSerializer: age >= 18, monthly_income >= 0, unique phone number
register_is_valid(req) ==
    req.age >= 18 /\ req.monthly_income >= 0 /\ ~PhoneTaken(req.phone_number)

register_customer(req) ==
    /\ request' = req
    /\ evaluation' = NoEvaluation
    /\ IF register_is_valid(req)
       THEN /\ Len(customers) < MaxCustomers
            /\ customers' = Append(customers,
                   [customer_id |-> Len(customers) + 1, age |-> req.age,
                    phone_number |-> req.phone_number,
                    monthly_income |-> req.monthly_income,
                    approved_limit |-> approved_limit_for(req.monthly_income),
                    current_debt |-> 0])
            /\ response' = [status |-> 201, customer_id |-> Len(customers) + 1,
                            monthly_income |-> req.monthly_income,
                            approved_limit |-> approved_limit_for(req.monthly_income)]
       ELSE /\ customers' = customers
            /\ response' = [status |-> 400]
    /\ UNCHANGED <<today, loans, inflight>>

-----------------------------------------------------------------------------
(* views.py: check-eligibility and create-loan *)

\* EligibilityCheckSerializer and CreateLoanSerializer: min_value of each field
loan_request_is_valid(req) ==
    req.loan_amount >= 0 /\ req.interest_rate >= 0 /\ req.tenure >= 1

\* Customer.objects.get(customer_id=...) finds a row
customer_exists(cid) == cid \in 1..Len(customers)

\* the tuple check_loan_eligibility returns for a request, in the current state
evaluate(req) ==
    [called |-> TRUE] @@
    check_loan_eligibility(customers[req.customer_id], req.loan_amount,
                           req.interest_rate, req.tenure, loans, today)

\* round(monthly_emi, 2) if monthly_emi > 0 else 0
rounded_or_zero(monthly_emi) == IF monthly_emi.n > 0 THEN Round2(monthly_emi) ELSE 0

\* faulty variant of check_eligibility: an approved enquiry is stored as a pending
\* Loan
check_eligibility_recording(req) ==
    /\ request' = req
    /\ IF ~loan_request_is_valid(req)
       THEN /\ evaluation' = NoEvaluation
            /\ response' = [status |-> 400]
            /\ loans' = loans
       ELSE IF ~customer_exists(req.customer_id)
       THEN /\ evaluation' = NoEvaluation
            /\ response' = [status |-> 404]
            /\ loans' = loans
       ELSE \E ev \in {evaluate(req)} :
                /\ evaluation' = ev
                /\ response' =
                       [status |-> 200, customer_id |-> req.customer_id,
                        approval |-> ev.is_approved,
                        interest_rate |-> req.interest_rate,
                        corrected_interest_rate |-> ev.corrected_rate,
                        tenure |-> req.tenure,
                        monthly_installment |-> rounded_or_zero(ev.monthly_emi)]
                /\ loans' =
                       IF ev.is_approved /\ Len(loans) < MaxLoans
                       THEN Append(loans,
                                [loan_id |-> Len(loans) + 1, customer |-> req.customer_id,
                                 loan_amount |-> req.loan_amount, tenure |-> req.tenure,
                                 interest_rate |-> ev.corrected_rate,
                                 monthly_installment |-> rounded_or_zero(ev.monthly_emi),
                                 emis_paid |-> 0, status |-> "pending",
                                 start_date |-> today,
                                 end_date |-> today + 30 * req.tenure])
                       ELSE loans
    /\ UNCHANGED <<today, customers, inflight>>

check_eligibility(req) ==
    /\ request' = req
    /\ IF ~loan_request_is_valid(req)
       THEN /\ evaluation' = NoEvaluation
            /\ response' = [status |-> 400]
       ELSE IF ~customer_exists(req.customer_id)
       THEN /\ evaluation' = NoEvaluation
            /\ response' = [status |-> 404]
       ELSE \E ev \in {evaluate(req)} :
                /\ evaluation' = ev
                /\ response' =
                       [status |-> 200, customer_id |-> req.customer_id,
                        approval |-> ev.is_approved,
                        interest_rate |-> req.interest_rate,
                        corrected_interest_rate |-> ev.corrected_rate,
                        tenure |-> req.tenure,
                        monthly_installment |-> rounded_or_zero(ev.monthly_emi)]
    /\ UNCHANGED <<today, customers, loans, inflight>>

\* the response of create_loan when the evaluation is not approved
rejection_response(cid) ==
    [status |-> 200, loan_id |-> NoneId, customer_id |-> cid, loan_approved |-> FALSE,
     message |-> "Loan cannot be approved based on credit score and financial criteria.",
     monthly_installment |-> 0]

\* faulty variant of new_loan: the end date counts one day per period, not 30
new_loan_one_day_periods(cid, loan_amount, tenure, corrected_rate, monthly_emi, ls, day) ==
    [loan_id |-> Len(ls) + 1, customer |-> cid, loan_amount |-> loan_amount,
     tenure |-> tenure, interest_rate |-> corrected_rate,
     monthly_installment |-> Round2(monthly_emi), emis_paid |-> 0,
     status |-> "approved", start_date |-> day, end_date |-> day + tenure]

\* the row Loan.objects.create inserts
new_loan(cid, loan_amount, tenure, corrected_rate, monthly_emi, ls, day) ==
    [loan_id |-> Len(ls) + 1, customer |-> cid, loan_amount |-> loan_amount,
     tenure |-> tenure, interest_rate |-> corrected_rate,
     monthly_installment |-> Round2(monthly_emi), emis_paid |-> 0,
     status |-> "approved", start_date |-> day, end_date |-> day + 30 * tenure]

\* faulty variant of loans_after_decision: update_or_create keyed by the customer,
\* so an approval overwrites the customer's latest Loan when there is one
loans_after_decision_update_or_create(req, ev, ls, day) ==
    IF ~ev.is_approved
    THEN ls
    ELSE IF \E i \in 1..Len(ls) : ls[i].customer = req.customer_id
    THEN LET last == CHOOSE i \in 1..Len(ls) :
                         /\ ls[i].customer = req.customer_id
                         /\ \A j \in (i + 1)..Len(ls) : ls[j].customer # req.customer_id
         IN  Append([ls EXCEPT ![last] =
                        [@ EXCEPT !.loan_amount = req.loan_amount,
                                  !.tenure = req.tenure,
                                  !.interest_rate = ev.corrected_rate,
                                  !.monthly_installment = Round2(ev.monthly_emi),
                                  !.start_date = day,
                                  !.end_date = day + 30 * req.tenure]],
                    new_loan(req.customer_id, req.loan_amount, req.tenure,
                             ev.corrected_rate, ev.monthly_emi, ls, day))
    ELSE Append(ls, new_loan(req.customer_id, req.loan_amount, req.tenure,
                             ev.corrected_rate, ev.monthly_emi, ls, day))

\* faulty variant of loans_after_decision: the row is inserted before the decision
\* is looked at
loans_after_decision_unconditional(req, ev, ls, day) ==
    Append(ls, new_loan(req.customer_id, req.loan_amount, req.tenure,
                        ev.corrected_rate, ev.monthly_emi, ls, day))

\* table loans_loan after create_loan's decision: `if not is_approved: return ...`
\* comes before Loan.objects.create
loans_after_decision(req, ev, ls, day) ==
    IF ~ev.is_approved
    THEN ls
    ELSE Append(ls, new_loan(req.customer_id, req.loan_amount, req.tenure,
                             ev.corrected_rate, ev.monthly_emi, ls, day))

\* the response of create_loan after the insert
approval_response(cid, loan_id, monthly_emi) ==
    [status |-> 201, loan_id |-> loan_id, customer_id |-> cid, loan_approved |-> TRUE,
     message |-> "Loan approved successfully",
     monthly_installment |-> Round2(monthly_emi)]

\* the whole handler, run without another request in between
create_loan(req) ==
    /\ request' = req
    /\ IF ~loan_request_is_valid(req)
       THEN /\ evaluation' = NoEvaluation
            /\ response' = [status |-> 400]
            /\ loans' = loans
       ELSE IF ~customer_exists(req.customer_id)
       THEN /\ evaluation' = NoEvaluation
            /\ response' = [status |-> 404]
            /\ loans' = loans
       ELSE \E ev \in {evaluate(req)} :
                /\ evaluation' = ev
                /\ ev.is_approved => Len(loans) < MaxLoans
                /\ loans' = loans_after_decision(req, ev, loans, today)
                /\ response' =
                       IF ~ev.is_approved
                       THEN rejection_response(req.customer_id)
                       ELSE approval_response(req.customer_id, Len(loans) + 1,
                                              ev.monthly_emi)
    /\ UNCHANGED <<today, customers, inflight>>

-----------------------------------------------------------------------------
(* views.py: the read-only views *)

view_loan(loan_id) ==
    /\ request' = [op |-> "view_loan", loan_id |-> loan_id]
    /\ evaluation' = NoEvaluation
    /\ response' =
           IF loan_id \in 1..Len(loans)
           THEN [status |-> 200, loan_id |-> loan_id,
                 customer_id |-> loans[loan_id].customer,
                 loan_amount |-> loans[loan_id].loan_amount,
                 is_loan_approved |-> (loans[loan_id].status = "approved"),
                 interest_rate |-> loans[loan_id].interest_rate,
                 monthly_installment |-> loans[loan_id].monthly_installment,
                 tenure |-> loans[loan_id].tenure]
           ELSE [status |-> 404]
    /\ UNCHANGED <<today, customers, loans, inflight>>

view_loans_by_customer(cid) ==
    /\ request' = [op |-> "view_loans", customer_id |-> cid]
    /\ evaluation' = NoEvaluation
    /\ response' =
           IF customer_exists(cid)
           THEN LET mine == LoansOf(loans, cid)
                IN  [status |-> 200,
                     loans_data |->
                         [i \in 1..Len(mine) |->
                             [loan_id |-> mine[i].loan_id,
                              loan_amount |-> mine[i].loan_amount,
                              is_loan_approved |-> (mine[i].status = "approved"),
                              emis_paid |-> mine[i].emis_paid,
                              repayments_left |-> repayments_left(mine[i])]]]
           ELSE [status |-> 404]
    /\ UNCHANGED <<today, customers, loans, inflight>>

-----------------------------------------------------------------------------
(* The clock *)

Jumps == {31}

AdvanceDay(d) ==
    /\ today + d <= MaxDay
    /\ today' = today + d
    /\ request' = [op |-> "advance"]
    /\ evaluation' = NoEvaluation
    /\ response' = NoResponse
    /\ UNCHANGED <<customers, loans, inflight>>

-----------------------------------------------------------------------------
(* Requests handled one at a time *)

Register ==
    /\ \E req \in RegisterRequests : register_customer(req)
    /\ UNCHANGED earlier

CheckEligibility ==
    /\ \E req \in LoanRequests("check_eligibility") : check_eligibility(req)
    /\ UNCHANGED earlier

CreateLoan ==
    /\ \E req \in LoanRequests("create_loan") : create_loan(req)
    /\ UNCHANGED earlier

ViewLoan ==
    /\ \E id \in 1..MaxLoans : view_loan(id)
    /\ UNCHANGED earlier

ViewLoans ==
    /\ \E cid \in 1..MaxCustomers : view_loans_by_customer(cid)
    /\ UNCHANGED earlier

Tick ==
    /\ \E d \in Jumps : AdvanceDay(d)
    /\ UNCHANGED earlier

Next == Register \/ CheckEligibility \/ CreateLoan \/ ViewLoan \/ ViewLoans \/ Tick

Spec == Init /\ [][Next]_vars

-----------------------------------------------------------------------------
(* Requests handled at the same time.  create_loan opens no transaction and takes
   no lock, so each query is committed on its own: between the reads of
   check_loan_eligibility and Loan.objects.create another worker may run.  The
   model keeps the reads of one request together and lets the other workers and
   the clock move before its write. *)

\* create_loan up to the decision (views.py lines 84-114)
create_loan_reads(w, req) ==
    /\ inflight[w] = Idle
    /\ request' = req
    /\ IF ~loan_request_is_valid(req)
       THEN /\ evaluation' = NoEvaluation
            /\ response' = [status |-> 400]
            /\ inflight' = inflight
       ELSE IF ~customer_exists(req.customer_id)
       THEN /\ evaluation' = NoEvaluation
            /\ response' = [status |-> 404]
            /\ inflight' = inflight
       ELSE \E ev \in {evaluate(req)} :
                /\ evaluation' = ev
                /\ IF ~ev.is_approved
                   THEN /\ response' = rejection_response(req.customer_id)
                        /\ inflight' = inflight
                   ELSE /\ response' = NoResponse
                        /\ inflight' = [inflight EXCEPT ![w] =
                               [pc |-> "approved", request |-> req, evaluation |-> ev]]
    /\ UNCHANGED <<today, customers, loans>>

\* create_loan from the insert on (views.py lines 116-140)
create_loan_write(w) ==
    /\ inflight[w].pc = "approved"
    /\ Len(loans) < MaxLoans
    /\ LET req == inflight[w].request
           ev == inflight[w].evaluation
       IN  /\ loans' = Append(loans,
                   new_loan(req.customer_id, req.loan_amount, req.tenure,
                            ev.corrected_rate, ev.monthly_emi, loans, today))
           /\ request' = req
           /\ evaluation' = ev
           /\ response' = approval_response(req.customer_id, Len(loans) + 1,
                                            ev.monthly_emi)
    /\ inflight' = [inflight EXCEPT ![w] = Idle]
    /\ UNCHANGED <<today, customers>>

ConcReads ==
    /\ \E w \in Workers, req \in LoanRequests("create_loan") : create_loan_reads(w, req)
    /\ UNCHANGED earlier

ConcWrite ==
    /\ \E w \in Workers : create_loan_write(w)
    /\ UNCHANGED earlier

NextConc == ConcReads \/ ConcWrite \/ Tick

SpecConc == Init /\ [][NextConc]_vars

-----------------------------------------------------------------------------
(* A client that repeats check-eligibility calls.  `earlier` is the first answer the
   client got since the last loan was created: the request, the response, the day
   of the call, and whether the same request was sent again later. *)

InitRepeat ==
    /\ today = 400
    /\ customers = <<LoadedCustomer>>
    /\ \E rows \in SeqsUpTo(LoanRows, MaxRepeatLoaded) :
           loans = [i \in 1..Len(rows) |-> LoadedLoan(i, rows[i])]
    /\ request = [op |-> "none"]
    /\ evaluation = NoEvaluation
    /\ response = NoResponse
    /\ inflight = [w \in Workers |-> Idle]
    /\ earlier = NoCall

RepeatCheck ==
    /\ \E req \in LoanRequests("check_eligibility") : check_eligibility(req)
    /\ earlier' =
           IF ~earlier.called
           THEN [called |-> TRUE, request |-> request', response |-> response',
                 today |-> today, repeated |-> FALSE]
           ELSE IF request' = earlier.request
           THEN [earlier EXCEPT !.repeated = TRUE]
           ELSE earlier

RepeatCreate ==
    /\ \E req \in LoanRequests("create_loan") : create_loan(req)
    /\ earlier' = IF Len(loans') > Len(loans) THEN NoCall ELSE earlier

NextRepeat == RepeatCheck \/ RepeatCreate \/ Tick

SpecRepeat == InitRepeat /\ [][NextRepeat]_vars

-----------------------------------------------------------------------------
(* Registration over a range of monthly incomes: the multiples of 625 (36 x 12,500,
   36 x 37,500 and 36 x 62,500 lie halfway between two multiples of 100,000) and
   incomes next to a halfway point *)

RegisterIncomes ==
    {625 * k : k \in 0..MaxIncomeSteps} \cup {1388, 1389, 4166, 4167}

InitRegister ==
    /\ today = 400
    /\ customers = <<LoadedCustomer>>
    /\ loans = <<>>
    /\ request = [op |-> "none"]
    /\ evaluation = NoEvaluation
    /\ response = NoResponse
    /\ inflight = [w \in Workers |-> Idle]
    /\ earlier = NoCall

RegisterIncome ==
    /\ \E income \in RegisterIncomes :
           register_customer([op |-> "register", age |-> 30, monthly_income |-> income,
                              phone_number |-> "p2"])
    /\ UNCHANGED earlier

NextRegister == RegisterIncome

SpecRegister == InitRegister /\ [][NextRegister]_vars

-----------------------------------------------------------------------------
(* The amortization calculator on its own: the arguments are drawn at the start and
   one step applies the function to them *)

CalculatorRates == {0, 12, 16, 20}

CalculatorTenures == {0, 1, 2, 3}

InitCalculator ==
    /\ today = 400
    /\ customers = <<LoadedCustomer>>
    /\ loans = <<>>
    /\ \E principal \in 0..MaxPrincipal, rate \in CalculatorRates,
          tenure \in CalculatorTenures :
           request = [op |-> "calculate_monthly_installment", principal |-> principal,
                      annual_interest_rate |-> rate, tenure_months |-> tenure]
    /\ evaluation = NoEvaluation
    /\ response = NoResponse
    /\ inflight = [w \in Workers |-> Idle]
    /\ earlier = NoCall

Calculate ==
    /\ response = NoResponse
    /\ response' = [status |-> 200,
                    monthly_installment |->
                        calculate_monthly_installment(request.principal,
                                                      request.annual_interest_rate,
                                                      request.tenure_months)]
    /\ UNCHANGED <<today, customers, loans, request, evaluation, inflight, earlier>>

NextCalculator == Calculate

SpecCalculator == InitCalculator /\ [][NextCalculator]_vars

-----------------------------------------------------------------------------
(* The scorer on its own: the loaded customer's loans and the current date are
   drawn at the start and one step applies the function to them *)

ScoringDays == {400, 431}

InitScorer ==
    /\ today \in ScoringDays
    /\ customers = <<LoadedCustomer>>
    /\ \E rows \in SeqsUpTo(LoanRows, MaxScored) :
           loans = [i \in 1..Len(rows) |-> LoadedLoan(i, rows[i])]
    /\ request = [op |-> "calculate_credit_score", customer_id |-> 1]
    /\ evaluation = NoEvaluation
    /\ response = NoResponse
    /\ inflight = [w \in Workers |-> Idle]
    /\ earlier = NoCall

Score ==
    /\ ~evaluation.called
    /\ evaluation' = [called |-> TRUE,
                      credit_score |->
                          calculate_credit_score(customers[request.customer_id],
                                                 loans, today)]
    /\ UNCHANGED <<today, customers, loans, request, response, inflight, earlier>>

NextScorer == Score

SpecScorer == InitScorer /\ [][NextScorer]_vars

-----------------------------------------------------------------------------
(* What the claims speak of, written from their wording *)

\* loan i of the table is an approved loan of the customer with end date
\* today-or-later
IsActive(ls, i, cid, day) ==
    ls[i].customer = cid /\ ls[i].status = "approved" /\ ls[i].end_date >= day

\* the sum of principal of the customer's approved loans with end date
\* today-or-later, among the first k loans of the table
RECURSIVE ExposureAmong(_, _, _, _)
ExposureAmong(ls, cid, day, k) ==
    IF k = 0 THEN 0
    ELSE ExposureAmong(ls, cid, day, k - 1)
         + (IF IsActive(ls, k, cid, day) THEN ls[k].loan_amount ELSE 0)

Exposure(ls, cid, day) == ExposureAmong(ls, cid, day, Len(ls))

\* for every customer the exposure is at most the approved limit
ExposureWithinLimits(ls, cs, day) ==
    \A c \in 1..Len(cs) : Exposure(ls, c, day) <= cs[c].approved_limit

\* the installments the affordability gate adds up, in hundredths: those of the
\* customer's loans with end date today-or-later (section 4.3 of the
\* specification), among the first k loans of the table
RECURSIVE InstallmentsAmong(_, _, _, _)
InstallmentsAmong(ls, cid, day, k) ==
    IF k = 0 THEN 0
    ELSE InstallmentsAmong(ls, cid, day, k - 1)
         + (IF ls[k].customer = cid /\ ls[k].end_date >= day
            THEN ls[k].monthly_installment ELSE 0)

InstallmentsDue(ls, cid, day) == InstallmentsAmong(ls, cid, day, Len(ls))

IsLoanRequest == request.op \in {"check_eligibility", "create_loan"}

\* the last handler was check-eligibility and it ran the evaluator; the tables are
\* those the evaluator read
Checked == request.op = "check_eligibility" /\ evaluation.called

Requester == customers[request.customer_id]

\* C1: a create-loan request never takes a customer's exposure from within the
\* approved limit to above it, whatever other create-loan requests run at the same
\* time.
C1_CreateLoanAtomicPerCustomer ==
    [][ExposureWithinLimits(loans, customers, today)
           => ExposureWithinLimits(loans', customers', today')]_vars

\* C2: with requests handled one at a time, no register, check-eligibility,
\* create-loan, view or advance of the date takes a state in which every customer's
\* exposure is within the approved limit to one in which some customer's is not.
C2_ExposureKeptSequentially ==
    [][(\A c \in 1..Len(customers) :
            Exposure(loans, c, today) <= customers[c].approved_limit)
       => (\A c \in 1..Len(customers') :
            Exposure(loans', c, today') <= customers'[c].approved_limit)]_vars

\* C2 witness: a create-loan was approved and left the requester's exposure exactly
\* at the approved limit.
C2_Witness ==
    /\ request.op = "create_loan"
    /\ response.status = 201
    /\ Exposure(loans, request.customer_id, today) = Requester.approved_limit
    /\ ExposureWithinLimits(loans, customers, today)

\* C3: a create-loan whose evaluation is not approved leaves the Loan records as
\* they were and answers loan id null, approved false, installment 0 and the
\* rejection message.
C3_RejectedPersistsNothing ==
    [][(request'.op = "create_loan" /\ evaluation'.called /\ ~evaluation'.is_approved)
       => /\ loans' = loans
          /\ response'.status = 200
          /\ response'.loan_id = NoneId
          /\ response'.loan_approved = FALSE
          /\ response'.monthly_installment = 0
          /\ response'.message
                 = "Loan cannot be approved based on credit score and financial criteria."]_vars

\* C3 witness: a create-loan of a customer with loans on record was rejected.
C3_Witness ==
    /\ request.op = "create_loan"
    /\ evaluation.called
    /\ ~evaluation.is_approved
    /\ response.loan_id = NoneId
    /\ LoansOf(loans, request.customer_id) # <<>>

\* x, a rational, rounded to 2 decimals is `cents` hundredths
RoundsTo(x, cents) == 2 * Abs(100 * x.n - cents * x.d) <= x.d

\* C4: an approved create-loan adds exactly one Loan, for the requester, approved,
\* with the requested principal and tenure, start date today, end date today + 30 x
\* tenure, the corrected rate of the same evaluation and the amortization result for
\* (requested amount, corrected rate, tenure) rounded to 2 decimals; the records
\* already there stay as they were.
C4_ApprovedPersistsOneLoan ==
    [][(request'.op = "create_loan" /\ response'.status = 201)
       => LET l == loans'[Len(loans')]
              emi == calculate_monthly_installment(
                         request'.loan_amount, evaluation'.corrected_rate, request'.tenure)
          IN  /\ Len(loans') = Len(loans) + 1
              /\ SubSeq(loans', 1, Len(loans)) = loans
              /\ evaluation'.is_approved
              /\ l.customer = request'.customer_id
              /\ l.status = "approved"
              /\ l.loan_amount = request'.loan_amount
              /\ l.tenure = request'.tenure
              /\ l.start_date = today
              /\ l.end_date = today + 30 * request'.tenure
              /\ l.interest_rate = evaluation'.corrected_rate
              /\ RoundsTo(emi, l.monthly_installment)
              /\ response'.loan_id = l.loan_id
              /\ response'.loan_approved = TRUE
              /\ response'.monthly_installment = l.monthly_installment]_vars

\* C4 witness: an approved create-loan with interest, over 1 period, was persisted.
C4_Witness ==
    /\ request.op = "create_loan"
    /\ response.status = 201
    /\ request.interest_rate > 0
    /\ loans[Len(loans)].loan_id = response.loan_id
    /\ loans[Len(loans)].monthly_installment > 100 * request.loan_amount

-----------------------------------------------------------------------------
(* The gates and the policy table, as the claims word them *)

\* the requester's installments due are strictly more than 50% of monthly income
OverHalfIncome == 2 * InstallmentsDue(loans, request.customer_id, today)
                      > 100 * Requester.monthly_income

ExactlyHalfIncome == 2 * InstallmentsDue(loans, request.customer_id, today)
                         = 100 * Requester.monthly_income

\* the requester's exposure plus the requested amount
ExposureWithRequest == Exposure(loans, request.customer_id, today) + request.loan_amount

\* row k of the policy table applies to the score
RowApplies(k, score) ==
    CASE k = 1 -> FLess(FInt(50), score)
      [] k = 2 -> FLess(FInt(30), score) /\ ~FLess(FInt(50), score)
      [] k = 3 -> FLess(FInt(10), score) /\ ~FLess(FInt(30), score)
      [] k = 4 -> ~FLess(FInt(10), score)

\* what row k decides for a requested rate
RowOutcome(k, rate) ==
    CASE k = 1 -> [is_approved |-> TRUE, corrected_rate |-> rate]
      [] k = 2 -> IF rate > 12 THEN [is_approved |-> TRUE, corrected_rate |-> rate]
                  ELSE [is_approved |-> FALSE, corrected_rate |-> 12]
      [] k = 3 -> IF rate > 16 THEN [is_approved |-> TRUE, corrected_rate |-> rate]
                  ELSE [is_approved |-> FALSE, corrected_rate |-> 16]
      [] k = 4 -> [is_approved |-> FALSE, corrected_rate |-> 16]

ConformsToTable(score, rate, decision) ==
    /\ Cardinality({k \in 1..4 : RowApplies(k, score)}) = 1
    /\ \A k \in 1..4 : RowApplies(k, score) => decision = RowOutcome(k, rate)
    /\ decision.is_approved => decision.corrected_rate = rate

\* scores 0, 0.5, 1, ..., 100 and rates on and around the floors
SweptScores == {Frac(k, 2) : k \in 0..200}
SweptRates == {0, 11, 12, 13, 16, 17, 20}

DecisionOf(ev) == [is_approved |-> ev.is_approved, corrected_rate |-> ev.corrected_rate]

\* the table over the swept scores and rates, and its three boundary scores
SweepConforms ==
    /\ \A sc \in SweptScores, r \in SweptRates :
           ConformsToTable(sc, r, policy_table(sc, r))
    /\ \A r \in SweptRates :
           /\ policy_table(FInt(50), r) = RowOutcome(2, r)
           /\ policy_table(FInt(30), r) = RowOutcome(3, r)
           /\ policy_table(FInt(10), r) = RowOutcome(4, r)

\* C5: the policy table is exhaustive and non-overlapping, 50, 30 and 10 fall into
\* the lower band, each row decides as listed (the floors 12 and 16 are strict),
\* every approval keeps the requested rate and every rejection has installment 0:
\* for every swept score and rate, and for every check-eligibility that passed both
\* gates.
C5_PolicyTable ==
    /\ SweepConforms
    /\ (Checked /\ ~OverHalfIncome /\ ExposureWithRequest <= Requester.approved_limit)
       => /\ ConformsToTable(evaluation.credit_score, request.interest_rate,
                             DecisionOf(evaluation))
          /\ ~evaluation.is_approved => evaluation.monthly_emi = FInt(0)
          /\ ~evaluation.is_approved => response.monthly_installment = 0
          /\ response.approval = evaluation.is_approved
          /\ response.corrected_interest_rate = evaluation.corrected_rate

\* C5 witness: a check-eligibility with score exactly 50 and requested rate exactly
\* 12 passed both gates and was rejected with reported rate 12.
C5_Witness ==
    /\ Checked
    /\ evaluation.credit_score = FInt(50)
    /\ request.interest_rate = 12
    /\ ~OverHalfIncome
    /\ ExposureWithRequest <= Requester.approved_limit
    /\ ~response.approval
    /\ response.corrected_interest_rate = 12

ScoreInRange(score) == ~FLess(score, FInt(0)) /\ ~FLess(FInt(100), score)

\* C6: the score the scorer returns is in [0,100], for every customer in every
\* state and in every evaluation.
C6_ScoreInRange ==
    /\ \A c \in 1..Len(customers) :
           ScoreInRange(calculate_credit_score(customers[c], loans, today))
    /\ evaluation.called => ScoreInRange(evaluation.credit_score)

\* C6 witness: an evaluation of a customer whose past loans average more than the
\* approved limit (the volume component is capped) scored above 50.
C6_Witness ==
    /\ IsLoanRequest
    /\ evaluation.called
    /\ FLess(FInt(50), evaluation.credit_score)
    /\ \E i \in 1..Len(loans) :
           /\ loans[i].customer = request.customer_id
           /\ loans[i].end_date < today
           /\ loans[i].loan_amount > Requester.approved_limit

\* C7: when a customer's exposure strictly exceeds the approved limit the score is
\* exactly 0 whatever the past loans; when it is at most the limit (equal included)
\* the score is the component sum, capped at 100; the evaluator reports that score.
C7_ScorerExposureShortCircuit ==
    /\ \A c \in 1..Len(customers) :
           LET score == calculate_credit_score(customers[c], loans, today)
               past == PastLoans(loans, c, today)
           IN  IF Exposure(loans, c, today) > customers[c].approved_limit
               THEN score = FInt(0)
               ELSE score = PyMin(FInt(100),
                                  component_sum(past, customers[c].approved_limit, today))
    /\ Checked => evaluation.credit_score
                      = calculate_credit_score(Requester, loans, today)

\* C7 witness: a check-eligibility of a customer whose exposure equals the approved
\* limit reported a score above 0.
C7_Witness ==
    /\ Checked
    /\ Exposure(loans, request.customer_id, today) = Requester.approved_limit
    /\ evaluation.credit_score.n > 0

\* C8: a check-eligibility of a customer whose installments due are strictly more
\* than 50% of monthly income is not approved, with corrected rate = requested rate,
\* installment 0 and the score still returned, whatever the score band; at exactly
\* 50% the affordability gate does not reject: the exposure gate and the policy
\* table decide.
C8_AffordabilityGate ==
    Checked =>
        /\ OverHalfIncome =>
               /\ ~evaluation.is_approved
               /\ evaluation.corrected_rate = request.interest_rate
               /\ evaluation.monthly_emi = FInt(0)
               /\ evaluation.credit_score
                      = calculate_credit_score(Requester, loans, today)
               /\ ~response.approval
               /\ response.corrected_interest_rate = request.interest_rate
               /\ response.monthly_installment = 0
        /\ (ExactlyHalfIncome /\ ExposureWithRequest <= Requester.approved_limit) =>
               DecisionOf(evaluation)
                   = policy_table(evaluation.credit_score, request.interest_rate)

\* C8 witness: a check-eligibility of a customer whose installments due are exactly
\* 50% of monthly income was approved.
C8_Witness ==
    /\ Checked
    /\ ExactlyHalfIncome
    /\ InstallmentsDue(loans, request.customer_id, today) > 0
    /\ evaluation.is_approved

\* C9: a check-eligibility that passed the affordability gate and whose exposure
\* plus requested amount strictly exceeds the approved limit is not approved, with
\* corrected rate = requested rate and installment 0, whatever the score; when the
\* sum is at most the limit (equal included) the policy table decides.
C9_ExposureGate ==
    (Checked /\ ~OverHalfIncome) =>
        IF ExposureWithRequest > Requester.approved_limit
        THEN /\ ~evaluation.is_approved
             /\ evaluation.corrected_rate = request.interest_rate
             /\ evaluation.monthly_emi = FInt(0)
             /\ response.monthly_installment = 0
        ELSE DecisionOf(evaluation)
                 = policy_table(evaluation.credit_score, request.interest_rate)

\* C9 witness: a check-eligibility whose exposure plus requested amount equals the
\* approved limit passed the gate and was approved.
C9_Witness ==
    /\ Checked
    /\ ~OverHalfIncome
    /\ Exposure(loans, request.customer_id, today) > 0
    /\ ExposureWithRequest = Requester.approved_limit
    /\ evaluation.is_approved

\* C10: a customer with no Loan record scores exactly 0, and a request of such a
\* customer that passes both gates is rejected with reported rate 16 and
\* installment 0.
C10_NoHistoryScoresZero ==
    /\ \A c \in 1..Len(customers) :
           LoansOf(loans, c) = <<>>
               => calculate_credit_score(customers[c], loans, today) = FInt(0)
    /\ (IsLoanRequest /\ evaluation.called /\ LoansOf(loans, request.customer_id) = <<>>)
       => /\ evaluation.credit_score = FInt(0)
          /\ (~OverHalfIncome /\ ExposureWithRequest <= Requester.approved_limit)
             => /\ ~evaluation.is_approved
                /\ evaluation.corrected_rate = 16
                /\ evaluation.monthly_emi = FInt(0)
                /\ response.monthly_installment = 0

\* C10 witness: the customer registered with income 50,000 (limit 1,800,000) asked
\* for a loan at 20% and was rejected with reported rate 16.
C10_Witness ==
    /\ IsLoanRequest
    /\ evaluation.called
    /\ LoansOf(loans, request.customer_id) = <<>>
    /\ Requester.monthly_income = 50000
    /\ Requester.approved_limit = 1800000
    /\ ~OverHalfIncome
    /\ ExposureWithRequest <= Requester.approved_limit
    /\ request.interest_rate = 20
    /\ ~evaluation.is_approved
    /\ evaluation.corrected_rate = 16

-----------------------------------------------------------------------------
(* Repeated calls *)

\* the last handler was check-eligibility, called again with the request of the
\* earlier call the client kept, no loan having been created in between
CalledAgain ==
    /\ request.op = "check_eligibility"
    /\ earlier.called
    /\ earlier.repeated
    /\ request = earlier.request

\* C11 as stated: two check-eligibility calls with identical inputs (customer id,
\* amount, rate, tenure) and no intervening loan creation return identical outputs.
C11_SameAnswerWithoutCreation ==
    CalledAgain => response = earlier.response

\* C11 amended: two check-eligibility calls with identical inputs, made on the same
\* current date with no intervening loan creation, return identical outputs
\* (approval, requested rate, corrected rate, tenure, installment).
C11_SameAnswerSameDay ==
    (CalledAgain /\ earlier.today = today) => response = earlier.response

\* C11 witness: the same request was answered twice on one day, both times with an
\* approval and an installment.
C11_Witness ==
    /\ CalledAgain
    /\ earlier.today = today
    /\ response.status = 200
    /\ response.approval
    /\ response.monthly_installment > 0
    /\ earlier.response.approval

-----------------------------------------------------------------------------
(* Frame *)

\* C12: check-eligibility, view-loan and view-loans change no Customer and no Loan
\* record; create-loan changes no Customer record and no field of a Loan already
\* persisted: it leaves the Loan table as it was or adds one Loan at its end.
C12_EngineFrame ==
    [][/\ request'.op \in {"check_eligibility", "view_loan", "view_loans"}
           => customers' = customers /\ loans' = loans
       /\ request'.op = "create_loan"
           => /\ customers' = customers
              /\ \/ loans' = loans
                 \/ /\ Len(loans') = Len(loans) + 1
                    /\ \A i \in 1..Len(loans) : loans'[i] = loans[i]]_vars

\* C12 witness: a create-loan was approved for a customer who already had a Loan
\* and whose Customer record is the one loaded.
C12_Witness ==
    /\ request.op = "create_loan"
    /\ response.status = 201
    /\ response.loan_id > 1
    /\ loans[1].customer = request.customer_id
    /\ loans[1].start_date < today
    /\ customers[request.customer_id] = LoadedCustomer

-----------------------------------------------------------------------------
(* Registration *)

\* the customer a successful registration just stored
Registered == request.op = "register" /\ response.status = 201

\* C13: the approved limit registration stores is a non-negative multiple of
\* 100,000 that differs from 36 x monthly income by at most 50,000, and the response
\* reports it; income 50,000 gives 1,800,000.
C13_ApprovedLimit ==
    Registered =>
        LET c == customers[response.customer_id]
        IN  /\ c.monthly_income = request.monthly_income
            /\ c.approved_limit >= 0
            /\ c.approved_limit % 100000 = 0
            /\ Abs(c.approved_limit - 36 * c.monthly_income) <= 50000
            /\ response.approved_limit = c.approved_limit
            /\ c.monthly_income = 50000 => c.approved_limit = 1800000

\* C13 witness: income 12,500 was registered (36 x 12,500 = 450,000 is halfway
\* between 400,000 and 500,000) and the stored limit is 50,000 away from it.
C13_Witness ==
    /\ Registered
    /\ request.monthly_income = 12500
    /\ Abs(customers[response.customer_id].approved_limit - 450000) = 50000

-----------------------------------------------------------------------------
(* Amortization, degenerate cases *)

\* the calculator has returned for the arguments in request
Calculated == request.op = "calculate_monthly_installment" /\ response # NoResponse

\* C14: at rate 0 and a tenure of at least one period the installment is exactly
\* principal / tenure (installment x tenure = principal); at tenure 0 the calculator
\* returns 0 whatever the principal and the rate.
C14_DegenerateInstallments ==
    Calculated =>
        LET emi == response.monthly_installment
        IN  /\ (request.annual_interest_rate = 0 /\ request.tenure_months >= 1) =>
                   emi.n * request.tenure_months = request.principal * emi.d
            /\ request.tenure_months = 0 => emi.n = 0

\* C14 witness: the calculator returned for principal 10 at rate 0 over 3 periods,
\* where the quotient is no whole number.
C14_Witness ==
    /\ Calculated
    /\ request.principal = 10
    /\ request.annual_interest_rate = 0
    /\ request.tenure_months = 3
    /\ response.monthly_installment.d = 3

-----------------------------------------------------------------------------
(* The affordability sum *)

\* the installments, in hundredths, of the customer's loans with status approved and
\* end date today or later, among the first k rows
RECURSIVE ActiveInstallmentsAmong(_, _, _, _)
ActiveInstallmentsAmong(ls, cid, day, k) ==
    IF k = 0 THEN 0
    ELSE ActiveInstallmentsAmong(ls, cid, day, k - 1)
         + (IF ls[k].customer = cid /\ ls[k].status = "approved" /\ ls[k].end_date >= day
            THEN ls[k].monthly_installment ELSE 0)

ActiveInstallmentsDue(ls, cid, day) == ActiveInstallmentsAmong(ls, cid, day, Len(ls))

\* C15: the affordability sum runs over the customer's approved loans with end date
\* today or later only, so a check-eligibility whose sum over those loans is at most
\* 50% of monthly income, and whose exposure plus requested amount is within the
\* approved limit, is decided by the policy table, whatever pending or rejected
\* loans the customer has.
C15_AffordabilityOverActiveLoans ==
    (/\ Checked
     /\ 2 * ActiveInstallmentsDue(loans, request.customer_id, today)
            <= 100 * Requester.monthly_income
     /\ ExposureWithRequest <= Requester.approved_limit) =>
        DecisionOf(evaluation)
            = policy_table(evaluation.credit_score, request.interest_rate)

-----------------------------------------------------------------------------
(* The on-time component of the score *)

\* the scorer has returned for the customer in request
Scored == request.op = "calculate_credit_score" /\ evaluation.called

\* positions of the customer's past loans: approved, end date strictly before the day
PastPositions(ls, cid, day) ==
    {i \in 1..Len(ls) :
        ls[i].customer = cid /\ ls[i].status = "approved" /\ ls[i].end_date < day}

\* the most recently created past loan: rows are kept in creation order
ReferencePosition(ls, cid, day) ==
    CHOOSE i \in PastPositions(ls, cid, day) :
        \A j \in PastPositions(ls, cid, day) : j <= i

\* the on-time component the score must contain: TRUE when `points` is that value
\* (nothing is said of a reference loan of tenure 0)
IsOnTimePoints(points, ls, cid, day) ==
    LET past == PastPositions(ls, cid, day)
    IN  IF past = {}
        THEN points = FInt(0)
        ELSE LET reference == ls[ReferencePosition(ls, cid, day)]
                 counted == {i \in past : ls[i].emis_paid = reference.tenure}
             IN  reference.tenure > 0
                     => points = Frac(25 * Cardinality(counted), Cardinality(past))

\* the score less the three other components
OnTimePointsIn(score, ls, customer, day) ==
    LET past_loans == PastLoans(ls, customer.customer_id, day)
    IN  FSub(score,
             FAdd(loan_count_component(past_loans),
                  FAdd(current_year_component(past_loans, day),
                       volume_component(past_loans, customer.approved_limit))))

\* C16: with at least one past loan whose most recently created one (the reference)
\* has tenure > 0, the on-time component is 25 x (past loans whose paid-installment
\* count equals the reference's tenure) / (past loans); with no past loan it is 0.
\* It is the part of every returned score that the three other components leave,
\* when the exposure short-circuit does not fire.
C16_OnTimeComponent ==
    Scored =>
        LET customer == customers[request.customer_id]
            cid == request.customer_id
        IN  /\ IsOnTimePoints(on_time_component(PastLoans(loans, cid, today)),
                              loans, cid, today)
            /\ Exposure(loans, cid, today) <= customer.approved_limit
                   => IsOnTimePoints(OnTimePointsIn(evaluation.credit_score, loans,
                                                    customer, today),
                                     loans, cid, today)

\* C16 witness: the scorer returned for a customer with two past loans, the older
\* paid in full over 2 periods and the reference paid in full over 1 period: only
\* the reference counts, and the component is 12.5.
C16_Witness ==
    /\ Scored
    /\ PastPositions(loans, request.customer_id, today) = {1, 2}
    /\ loans[1].tenure = 2 /\ loans[1].emis_paid = 2
    /\ loans[2].tenure = 1 /\ loans[2].emis_paid = 1
    /\ Exposure(loans, request.customer_id, today)
           <= customers[request.customer_id].approved_limit
    /\ OnTimePointsIn(evaluation.credit_score, loans,
                      customers[request.customer_id], today) = Frac(25, 2)

-----------------------------------------------------------------------------
(* Customers without a loan *)

\* C17: a customer with no Loan record never obtains one: no check-eligibility,
\* create-loan or advance of the current date takes a customer from no Loan record
\* to some.
C17_NoFirstLoan ==
    [][\A c \in 1..MaxCustomers :
           LoansOf(loans, c) = <<>> => LoansOf(loans', c) = <<>>]_vars

\* C17 witness: after the current date advanced, a create-loan at 20% of a customer
\* with no Loan record ran the evaluator on a score of 0 and stored nothing.
C17_Witness ==
    /\ request.op = "create_loan"
    /\ request.interest_rate = 20
    /\ evaluation.called
    /\ evaluation.credit_score = FInt(0)
    /\ today > 400
    /\ loans = <<>>
    /\ response.status = 200

====
